---- MODULE Spec2Model ----
\* State-machine model of the VideoViewer publisher plugin
\* (plotjuggler_plugins/VideoViewer/video_viewer.cpp): the per-tick
\* synchronisation of the video dialog with a reference curve, the
\* enable/disable toggle with its QSettings persistence, the environment
\* bootstrap and the layout (XML) load.
EXTENDS Integers, Sequences, FiniteSets, TLC

\* ------------------------------------------------------------------ bounds

\* Longest series the host builds.
MaxLen == 2
\* Sample timestamps are 0..MaxTime; ticks query -1..MaxTime+1.
MaxTime == 2
Times == 0..MaxTime
QueryTimes == (0 - 1)..(MaxTime + 1)
\* The values samples carry.
Values == {10, 20}

\* Names a user can put into the reference line edit, and names of series
\* the host can hold.
CurveNames == {"", "a", "b"}
SeriesNames == {"a"}
VideoFiles == {"", "/v/x.mp4", "/w/y.mp4"}
Geometries == {"g1", "g2"}

\* ------------------------------------------------------------------ values

RECURSIVE GCD(_, _)
GCD(m, n) == IF n = 0 THEN m ELSE GCD(n, m % n)

Abs(n) == IF n < 0 THEN 0 - n ELSE n

\* A double is modelled as an exact fraction <<numerator, denominator>> in
\* lowest terms with a positive denominator.
Frac(n, d) ==
    LET g == GCD(Abs(n), d) IN <<n \div g, d \div g>>

Zero == Frac(0, 1)

\* nonstd::optional<T>: the empty sequence or a one-element sequence.
None == <<>>
Some(v) == <<v>>
has_value(o) == Len(o) = 1
value(o) == o[1]

\* ------------------------------------------------------------------ QSettings

\* The settings store is a function from the keys present to strings.
SetValue(s, k, v) == [x \in (DOMAIN s) \cup {k} |-> IF x = k THEN v ELSE s[x]]
Value(s, k, default) == IF k \in DOMAIN s THEN s[k] ELSE default
NoSettings == [x \in {} |-> ""]

\* QDir::currentPath(): the directory the program was started in.
currentPath == "/cwd"

\* QFileInfo(filename).absolutePath() for the file names of the model: the
\* directory part of an absolute name, the root for a file in the root, the
\* current directory for a relative name, nothing for the empty name.
absolutePath(filename) ==
    CASE filename = "" -> ""
      [] filename = "/v/x.mp4" -> "/v"
      [] filename = "/w/y.mp4" -> "/w"
      [] filename = "/x.mp4" -> "/"
      [] filename = "clip.mp4" -> currentPath

\* ------------------------------------------------------------------ state

VARIABLES
    dialog,       \* the VideoDialog: hidden, lineFilename, lineEditReference,
                  \* radioButtonFrame, paused, position, geometry
    xml_loaded,   \* PublisherVideo::_xml_loaded
    numeric,      \* _datamap->numeric: series name -> sequence of points
    settings,     \* QSettings
    env,          \* the process environment (VIDEO_PATH, VIDEO_REFERENCE_CURVE)
    raised,       \* an exception escaped a handler
    lastOp,       \* the handler that ran last
    trace,        \* the calls the last handler made on its collaborators
    pausesSinceResume,  \* pause(true) calls made by ticks since the last pause(false),
                        \* capped at 2
    deferred,     \* the reference curve was configured when no series had its name,
                  \* and has not been configured again since
    layout,       \* the parent element of the layout the host saved last
    saved,        \* what the dialog showed at that xmlSaveState, if there was one
    rules,        \* the RuleEditing dialog: open, text, saveEnabled, label, geometry
    ruleSettings  \* QSettings("IcarusTechnology", "PlotJuggler")

vars == <<dialog, xml_loaded, numeric, settings, env, raised, lastOp, trace,
          pausesSinceResume, deferred, layout, saved, rules, ruleSettings>>

\* A handler's working context: the state it can change.
Ctx(d, s) == [dialog |-> d, settings |-> s, trace |-> <<>>, raised |-> FALSE]

\* One entry of the call trace: the callee, a string argument and a numeric one.
Call(fn, s, q) == [fn |-> fn, s |-> s, q |-> q]
Log(c, call) == [c EXCEPT !.trace = Append(@, call)]

\* ------------------------------------------------------------------ VideoDialog

isHidden(d) == d.hidden
referenceCurve(d) == d.lineEditReference
isPaused(d) == d.paused

pause(c, b) ==
    Log([c EXCEPT !.dialog.paused = b],
        Call("pause", IF b THEN "true" ELSE "false", Zero))

seekByValue(c, v) ==
    Log([c EXCEPT !.dialog.position = Some(v)], Call("seekByValue", "", v))

loadFile(c, filename) ==
    Log([c EXCEPT !.dialog.lineFilename = filename], Call("loadFile", filename, Zero))

setReferenceText(c, text) == [c EXCEPT !.dialog.lineEditReference = text]

show(c) == Log([c EXCEPT !.dialog.hidden = FALSE], Call("show", "", Zero))
hide(c) == Log([c EXCEPT !.dialog.hidden = TRUE], Call("hide", "", Zero))

saveGeometry(d) == d.geometry
\* An empty byte array is no geometry: restoreGeometry fails and changes nothing.
restoreGeometry(c, bytes) ==
    IF bytes = "" THEN c ELSE [c EXCEPT !.dialog.geometry = bytes]

\* ------------------------------------------------------------------ PlotData

Point(x, y) == [x |-> x, y |-> y]

\* std::lower_bound on the timestamps: the first index whose x is >= the query.
RECURSIVE LowerBound(_, _, _)
LowerBound(points, x, i) ==
    IF i > Len(points) THEN i
    ELSE IF points[i].x >= x THEN i
    ELSE LowerBound(points, x, i + 1)

\* Linear interpolation between the bracketing samples, clamped at both ends;
\* empty on a series without samples.
getYfromX(points, x) ==
    IF Len(points) = 0 THEN None
    ELSE LET i == LowerBound(points, x, 1) IN
         IF i > Len(points) THEN Some(Frac(points[Len(points)].y, 1))
         ELSE IF i = 1 \/ points[i].x = x THEN Some(Frac(points[i].y, 1))
         ELSE LET p0 == points[i - 1]
                  p1 == points[i]
              IN Some(Frac(p0.y * (p1.x - p0.x) + (p1.y - p0.y) * (x - p0.x),
                           p1.x - p0.x))

\* ------------------------------------------------------------------ PublisherVideo

\* updateState, lines 43-50: apply a resolved position to the dialog.
driveAlwaysPause(c, position) ==
    IF has_value(position)
    THEN seekByValue(pause(c, TRUE), value(position))
    ELSE c

driveNeverPause(c, position) ==
    IF has_value(position)
    THEN seekByValue(c, value(position))
    ELSE c

driveUnchecked(c, position) ==
    LET c1 == IF ~isPaused(c.dialog) THEN pause(c, TRUE) ELSE c
    IN IF has_value(position)
       THEN seekByValue(c1, value(position))
       ELSE [c1 EXCEPT !.raised = TRUE]

drive(c, position) ==
    IF has_value(position)
    THEN LET c1 == IF ~isPaused(c.dialog) THEN pause(c, TRUE) ELSE c
         IN seekByValue(c1, value(position))
    ELSE c

\* Mutant: a lookup that fails is taken as the end of the configuration and
\* the reference curve is dropped.
updateStateGiveUp(c, data, current_time) ==
    IF isHidden(c.dialog) THEN c
    ELSE LET ref_curve == referenceCurve(c.dialog) IN
         IF ref_curve = "" THEN c
         ELSE LET c1 == Log(c, Call("find", ref_curve, Zero)) IN
              IF ref_curve \notin DOMAIN data THEN setReferenceText(c1, "")
              ELSE LET position == getYfromX(data[ref_curve], current_time)
                       c2 == Log(c1, Call("getYfromX", ref_curve, Frac(current_time, 1)))
                   IN drive(c2, position)

\* Mutant: the hidden dialog is driven too.
updateStateWhileHidden(c, data, current_time) ==
    LET ref_curve == referenceCurve(c.dialog) IN
    IF ref_curve = "" THEN c
    ELSE LET c1 == Log(c, Call("find", ref_curve, Zero)) IN
         IF ref_curve \notin DOMAIN data THEN c1
         ELSE LET position == getYfromX(data[ref_curve], current_time)
                  c2 == Log(c1, Call("getYfromX", ref_curve, Frac(current_time, 1)))
              IN drive(c2, position)

\* Mutant: the video is sought to the query time, not to the sampled value.
updateStateSeekTime(c, data, current_time) ==
    IF isHidden(c.dialog) THEN c
    ELSE LET ref_curve == referenceCurve(c.dialog) IN
         IF ref_curve = "" THEN c
         ELSE LET c1 == Log(c, Call("find", ref_curve, Zero)) IN
              IF ref_curve \notin DOMAIN data THEN c1
              ELSE LET position == getYfromX(data[ref_curve], current_time)
                       c2 == Log(c1, Call("getYfromX", ref_curve, Frac(current_time, 1)))
                   IN drive(c2, IF has_value(position)
                                THEN Some(Frac(current_time, 1)) ELSE None)

\* Mutant: a query time outside the series' range is rejected.
updateStateRejectOutside(c, data, current_time) ==
    IF isHidden(c.dialog) THEN c
    ELSE LET ref_curve == referenceCurve(c.dialog) IN
         IF ref_curve = "" THEN c
         ELSE LET c1 == Log(c, Call("find", ref_curve, Zero)) IN
              IF ref_curve \notin DOMAIN data THEN c1
              ELSE LET points == data[ref_curve]
                       position == getYfromX(points, current_time)
                       c2 == Log(c1, Call("getYfromX", ref_curve, Frac(current_time, 1)))
                   IN IF Len(points) > 0 /\ (current_time < points[1].x
                                             \/ current_time > points[Len(points)].x)
                      THEN c2
                      ELSE drive(c2, position)

updateState(c, data, current_time) ==
    IF isHidden(c.dialog) THEN c
    ELSE LET ref_curve == referenceCurve(c.dialog) IN
         IF ref_curve = "" THEN c
         ELSE LET c1 == Log(c, Call("find", ref_curve, Zero)) IN
              IF ref_curve \notin DOMAIN data THEN c1
              ELSE LET position == getYfromX(data[ref_curve], current_time)
                       c2 == Log(c1, Call("getYfromX", ref_curve, Frac(current_time, 1)))
                   IN drive(c2, position)

play(c, data, current_time) == updateState(c, data, current_time)

\* commaLoadVideoFromEnvironment: its return value and its effect on the settings.
useCommaVideo(e) ==
    "VIDEO_PATH" \in DOMAIN e /\ "VIDEO_REFERENCE_CURVE" \in DOMAIN e

\* Mutant: only the dotted keys are written, not the keys setEnabled reads.
commaLoadDottedOnly(s, e) ==
    IF ~useCommaVideo(e) THEN s
    ELSE LET filename == e["VIDEO_PATH"]
             curve == e["VIDEO_REFERENCE_CURVE"]
             directory_path == absolutePath(filename)
             s1 == SetValue(s, "VideoDialog::loadDirectory", directory_path)
             s2 == SetValue(s1, "VideoDialog.loadDirectory", directory_path)
             s5 == SetValue(s2, "VideoDialog.video_file", filename)
         IN SetValue(s5, "VideoDialog.curve_name", curve)

commaLoadVideoFromEnvironment(s, e) ==
    IF ~useCommaVideo(e) THEN s
    ELSE LET filename == e["VIDEO_PATH"]
             curve == e["VIDEO_REFERENCE_CURVE"]
             directory_path == absolutePath(filename)
             s1 == SetValue(s, "VideoDialog::loadDirectory", directory_path)
             s2 == SetValue(s1, "VideoDialog.loadDirectory", directory_path)
             s3 == SetValue(s2, "VideoDialog::video_file", filename)
             s4 == SetValue(s3, "VideoDialog::curve_name", curve)
             s5 == SetValue(s4, "VideoDialog.video_file", filename)
         IN SetValue(s5, "VideoDialog.curve_name", curve)

\* Mutant: disabling saves the settings but leaves the dialog on screen.
setEnabledKeepsShown(c, xml, e, enabled) ==
    LET use == useCommaVideo(e)
        c1 == [c EXCEPT !.settings = commaLoadVideoFromEnvironment(c.settings, e)]
    IN IF enabled
       THEN LET c2 ==
                  IF ~xml \/ use
                  THEN LET filename == Value(c1.settings, "VideoDialog::video_file", "")
                           c3 == IF filename # c1.dialog.lineFilename \/ use
                                 THEN loadFile(c1, filename)
                                 ELSE c1
                           curve_name == Value(c1.settings, "VideoDialog::curve_name", "")
                           c4 == setReferenceText(c3, curve_name)
                       IN restoreGeometry(c4, Value(c1.settings, "VideoDialog::geometry", ""))
                  ELSE c1
            IN show(c2)
       ELSE LET s1 == SetValue(c1.settings, "VideoDialog::video_file", c1.dialog.lineFilename)
                s2 == SetValue(s1, "VideoDialog::curve_name", c1.dialog.lineEditReference)
                s3 == SetValue(s2, "VideoDialog::geometry", saveGeometry(c1.dialog))
            IN [c1 EXCEPT !.settings = s3]

\* Mutant: disabling does not save the reference curve name.
setEnabledForgetsCurve(c, xml, e, enabled) ==
    LET use == useCommaVideo(e)
        c1 == [c EXCEPT !.settings = commaLoadVideoFromEnvironment(c.settings, e)]
    IN IF enabled
       THEN LET c2 ==
                  IF ~xml \/ use
                  THEN LET filename == Value(c1.settings, "VideoDialog::video_file", "")
                           c3 == IF filename # c1.dialog.lineFilename \/ use
                                 THEN loadFile(c1, filename)
                                 ELSE c1
                           curve_name == Value(c1.settings, "VideoDialog::curve_name", "")
                           c4 == setReferenceText(c3, curve_name)
                       IN restoreGeometry(c4, Value(c1.settings, "VideoDialog::geometry", ""))
                  ELSE c1
            IN show(c2)
       ELSE LET s1 == SetValue(c1.settings, "VideoDialog::video_file", c1.dialog.lineFilename)
                s3 == SetValue(s1, "VideoDialog::geometry", saveGeometry(c1.dialog))
            IN hide([c1 EXCEPT !.settings = s3])

setEnabled(c, xml, e, enabled) ==
    LET use == useCommaVideo(e)
        c1 == [c EXCEPT !.settings = commaLoadVideoFromEnvironment(c.settings, e)]
    IN IF enabled
       THEN LET c2 ==
                  IF ~xml \/ use
                  THEN LET filename == Value(c1.settings, "VideoDialog::video_file", "")
                           c3 == IF filename # c1.dialog.lineFilename \/ use
                                 THEN loadFile(c1, filename)
                                 ELSE c1
                           curve_name == Value(c1.settings, "VideoDialog::curve_name", "")
                           c4 == setReferenceText(c3, curve_name)
                       IN restoreGeometry(c4, Value(c1.settings, "VideoDialog::geometry", ""))
                  ELSE c1
            IN show(c2)
       ELSE LET s1 == SetValue(c1.settings, "VideoDialog::video_file", c1.dialog.lineFilename)
                s2 == SetValue(s1, "VideoDialog::curve_name", c1.dialog.lineEditReference)
                s3 == SetValue(s2, "VideoDialog::geometry", saveGeometry(c1.dialog))
            IN hide([c1 EXCEPT !.settings = s3])

\* The lambda connected to VideoDialog::closed in the constructor.
onDialogClosed(c, xml, e) ==
    Log(setEnabled(c, xml, e, FALSE), Call("emit closed", "", Zero))

\* A QDomElement: its tag name and its attributes.
Element(tag, attrs) == [tag |-> tag, attrs |-> attrs]
NoAttributes == [x \in {} |-> ""]
attribute(el, name) == IF name \in DOMAIN el.attrs THEN el.attrs[name] ELSE ""

\* parent.firstChildElement(tag): the children of that tag, in document
\* order; the first one is the element, none is the null element.
ChildElements(parent_element, tag) ==
    SelectSeq(parent_element, LAMBDA el : el.tag = tag)

ConfigAttributes(video_file, curve_name, use_frame) ==
    [x \in {"video_file", "curve_name", "use_frame"} |->
        CASE x = "video_file" -> video_file
          [] x = "curve_name" -> curve_name
          [] OTHER -> use_frame]

\* Mutant: the file name and the curve name are written to each other's attribute.
xmlSaveStateSwapped(d, parent_element) ==
    Append(parent_element,
           Element("config",
                   ConfigAttributes(d.lineEditReference, d.lineFilename,
                                    IF d.radioButtonFrame THEN "true" ELSE "false")))

\* xmlSaveState: the parent element with the config element appended; the
\* dialog is not changed and the result is always true.
xmlSaveState(d, parent_element) ==
    Append(parent_element,
           Element("config",
                   ConfigAttributes(d.lineFilename, d.lineEditReference,
                                    IF d.radioButtonFrame THEN "true" ELSE "false")))

setFrameChecked(c, frame) == [c EXCEPT !.dialog.radioButtonFrame = frame]

Return(c, b) == Log(c, Call("return", IF b THEN "true" ELSE "false", Zero))

\* Mutant: a parent without a config element resets the reference curve.
xmlLoadStateResets(c, xml, parent_element) ==
    LET configs == ChildElements(parent_element, "config") IN
    IF configs = <<>>
    THEN [ctx |-> Return(setReferenceText(c, ""), FALSE), xml_loaded |-> xml]
    ELSE LET config == Head(configs)
             c1 == loadFile(c, attribute(config, "video_file"))
             c2 == setReferenceText(c1, attribute(config, "curve_name"))
             c3 == setFrameChecked(c2, attribute(config, "use_frame") = "true")
         IN [ctx |-> Return(c3, TRUE), xml_loaded |-> TRUE]

\* Mutant: a successful load does not set _xml_loaded.
xmlLoadStateNoFlag(c, xml, parent_element) ==
    LET configs == ChildElements(parent_element, "config") IN
    IF configs = <<>>
    THEN [ctx |-> Return(c, FALSE), xml_loaded |-> xml]
    ELSE LET config == Head(configs)
             c1 == loadFile(c, attribute(config, "video_file"))
             c2 == setReferenceText(c1, attribute(config, "curve_name"))
             c3 == setFrameChecked(c2, attribute(config, "use_frame") = "true")
         IN [ctx |-> Return(c3, TRUE), xml_loaded |-> xml]

\* xmlLoadState: the context it leaves and the new value of _xml_loaded.
xmlLoadState(c, xml, parent_element) ==
    LET configs == ChildElements(parent_element, "config") IN
    IF configs = <<>>
    THEN [ctx |-> Return(c, FALSE), xml_loaded |-> xml]
    ELSE LET config == Head(configs)
             c1 == loadFile(c, attribute(config, "video_file"))
             c2 == setReferenceText(c1, attribute(config, "curve_name"))
             c3 == setFrameChecked(c2, attribute(config, "use_frame") = "true")
         IN [ctx |-> Return(c3, TRUE), xml_loaded |-> TRUE]

\* ------------------------------------------------------------------ actions

Active(d) == ~isHidden(d) /\ referenceCurve(d) # ""

Min(a, b) == IF a < b THEN a ELSE b

\* How many entries of a call trace are calls of fn with string argument s.
RECURSIVE CountCalls(_, _, _)
CountCalls(t, fn, s) ==
    IF t = <<>> THEN 0
    ELSE (IF Head(t).fn = fn /\ Head(t).s = s THEN 1 ELSE 0) + CountCalls(Tail(t), fn, s)

\* A tick resolves a position when the dialog is Active and its reference
\* curve names a series with at least one sample.
Resolvable(d, data) ==
    /\ Active(d)
    /\ referenceCurve(d) \in DOMAIN data
    /\ Len(data[referenceCurve(d)]) > 0

\* The dialog is shown with a reference curve that names no series (yet).
Unresolved(d, data) == Active(d) /\ referenceCurve(d) \notin DOMAIN data

\* The handler's context becomes the program state.
Commit(c, op) ==
    /\ dialog' = c.dialog
    /\ settings' = c.settings
    /\ trace' = c.trace
    /\ raised' = (raised \/ c.raised)
    /\ lastOp' = op
    /\ UNCHANGED <<layout, saved, rules, ruleSettings>>

Tick(c, op) ==
    /\ Commit(c, op)
    /\ pausesSinceResume' = Min(2, pausesSinceResume + CountCalls(c.trace, "pause", "true"))
    /\ UNCHANGED <<xml_loaded, numeric, env, deferred>>

UpdateState(current_time) ==
    Tick(updateState(Ctx(dialog, settings), numeric, current_time), "updateState")

Play(current_time) ==
    Tick(play(Ctx(dialog, settings), numeric, current_time), "play")

SetEnabled(enabled) ==
    /\ Commit(setEnabled(Ctx(dialog, settings), xml_loaded, env, enabled),
              IF enabled THEN "setEnabled(true)" ELSE "setEnabled(false)")
    /\ deferred' = Unresolved(dialog', numeric)
    /\ UNCHANGED <<xml_loaded, numeric, env, pausesSinceResume>>

\* The user closes the visible dialog: VideoDialog::closed is emitted.
DialogClosed ==
    /\ ~isHidden(dialog)
    /\ Commit(onDialogClosed(Ctx(dialog, settings), xml_loaded, env), "closed")
    /\ deferred' = Unresolved(dialog', numeric)
    /\ UNCHANGED <<xml_loaded, numeric, env, pausesSinceResume>>

\* The user drops a curve name on the reference line edit.
UserEditReference(name) ==
    /\ ~isHidden(dialog)
    /\ name # referenceCurve(dialog)
    /\ Commit(setReferenceText(Ctx(dialog, settings), name), "user")
    /\ deferred' = Unresolved(dialog', numeric)
    /\ UNCHANGED <<xml_loaded, numeric, env, pausesSinceResume>>

\* The user presses the play/pause button of the dialog.
UserPause(b) ==
    /\ ~isHidden(dialog)
    /\ b # isPaused(dialog)
    /\ Commit(pause(Ctx(dialog, settings), b), "user")
    /\ pausesSinceResume' = IF b THEN pausesSinceResume ELSE 0
    /\ UNCHANGED <<xml_loaded, numeric, env, deferred>>

\* The host data repository: series appear, grow and disappear.
Host(data) ==
    /\ numeric' = data
    /\ lastOp' = "host"
    /\ trace' = <<>>
    /\ UNCHANGED <<dialog, xml_loaded, settings, env, raised,
                   pausesSinceResume, deferred, layout, saved, rules, ruleSettings>>

HostAddSeries(name) ==
    /\ name \notin DOMAIN numeric
    /\ Host([n \in (DOMAIN numeric) \cup {name} |-> IF n = name THEN <<>> ELSE numeric[n]])

HostPushBack(name, x, y) ==
    /\ name \in DOMAIN numeric
    /\ Len(numeric[name]) < MaxLen
    /\ Len(numeric[name]) > 0 => numeric[name][Len(numeric[name])].x <= x
    /\ Host([numeric EXCEPT ![name] = Append(@, Point(x, y))])

HostEraseSeries(name) ==
    /\ name \in DOMAIN numeric
    /\ Host([n \in (DOMAIN numeric) \ {name} |-> numeric[n]])

XmlLoadState(parent_element) ==
    LET r == xmlLoadState(Ctx(dialog, settings), xml_loaded, parent_element) IN
    /\ Commit(r.ctx, "xmlLoadState")
    /\ xml_loaded' = r.xml_loaded
    /\ deferred' = IF ChildElements(parent_element, "config") = <<>>
                   THEN deferred ELSE Unresolved(dialog', numeric)
    /\ UNCHANGED <<numeric, env, pausesSinceResume>>

\* The user opens a video file from the dialog.
UserLoadFile(filename) ==
    /\ ~isHidden(dialog)
    /\ filename # dialog.lineFilename
    /\ Commit(loadFile(Ctx(dialog, settings), filename), "user")
    /\ UNCHANGED <<xml_loaded, numeric, env, pausesSinceResume, deferred>>

\* The user moves or resizes the dialog.
UserMove(geometry) ==
    /\ ~isHidden(dialog)
    /\ geometry # dialog.geometry
    /\ Commit([Ctx(dialog, settings) EXCEPT !.dialog.geometry = geometry], "user")
    /\ UNCHANGED <<xml_loaded, numeric, env, pausesSinceResume, deferred>>

\* The host saves the layout: xmlSaveState appends to a parent element it made.
XmlSaveState(parent_element) ==
    /\ layout' = xmlSaveState(dialog, parent_element)
    /\ saved' = Some([video_file |-> dialog.lineFilename,
                      curve_name |-> dialog.lineEditReference,
                      use_frame |-> dialog.radioButtonFrame,
                      fresh |-> ChildElements(parent_element, "config") = <<>>])
    /\ lastOp' = "xmlSaveState"
    /\ trace' = <<Call("return", "true", Zero)>>
    /\ UNCHANGED <<dialog, xml_loaded, numeric, settings, env, raised,
                   pausesSinceResume, deferred, rules, ruleSettings>>

\* The host loads the layout it saved last.
XmlLoadSaved == XmlLoadState(layout)

\* The user picks the frame or the time radio button.
UserSetMode(frame) ==
    /\ ~isHidden(dialog)
    /\ frame # dialog.radioButtonFrame
    /\ Commit(setFrameChecked(Ctx(dialog, settings), frame), "user")
    /\ UNCHANGED <<xml_loaded, numeric, env, pausesSinceResume, deferred>>

\* ------------------------------------------------------------------ RuleEditing

\* The editor's text is modelled by what QDomDocument::setContent makes of
\* it: not well-formed, or a document. The children of a document are the
\* nodes of its prolog (processing instructions, the XML declaration among
\* them, and the document type), each known by its nodeName, and the root
\* element. An element has a tag, the set of its attribute names and its
\* child elements in document order.
Node(tag, attrs, children) == [tag |-> tag, attrs |-> attrs, children |-> children]
Document(prolog, root) == [wellFormed |-> TRUE, prolog |-> prolog, root |-> root]
Malformed == [wellFormed |-> FALSE, prolog |-> <<>>, root |-> Node("", {}, <<>>)]

\* QDomNode::namedItem(name).toElement() on a document: the first child
\* whose nodeName is name, if that child is an element. The result is the
\* root element or null.
namedItemIsRoot(text, name) ==
    /\ text.root.tag = name
    /\ \A n \in DOMAIN text.prolog : text.prolog[n] # name

RuleAttributes == {"pattern", "alias", "substitution", "timestamp"}

\* The built-in rules: one RosType with three complete rules.
DEFAULT ==
    Document(<<>>, Node("SubstitutionRules", {},
        <<Node("RosType", {"name"},
            <<Node("rule", RuleAttributes, <<>>),
              Node("rule", RuleAttributes, <<>>),
              Node("rule", RuleAttributes, <<>>)>>)>>))

Verdict(valid, label) == [valid |-> valid, label |-> label]

\* isValidXml, lines 178-191: the checks on one child of a RosType.
checkRule(rule_el) ==
    IF rule_el.tag # "rule"
    THEN Verdict(FALSE, "Invalid: <RosType> must have children named <rule>")
    ELSE IF \/ "pattern" \notin rule_el.attrs
            \/ "alias" \notin rule_el.attrs
            \/ "substitution" \notin rule_el.attrs
    THEN Verdict(FALSE, "Invalid: <rule> must have the attributes 'pattern', 'alias' and 'substitution'")
    ELSE Verdict(TRUE, "")

\* isValidXml, lines 174-192: the loop over the children of a RosType.
RECURSIVE checkRules(_, _)
checkRules(rule_els, j) ==
    IF j > Len(rule_els) THEN Verdict(TRUE, "")
    ELSE LET v == checkRule(rule_els[j])
         IN IF ~v.valid THEN v ELSE checkRules(rule_els, j + 1)

\* isValidXml, lines 157-193: the loop over the children of the root.
RECURSIVE checkTypes(_, _)
checkTypes(type_els, i) ==
    IF i > Len(type_els) THEN Verdict(TRUE, "")
    ELSE LET type_el == type_els[i] IN
         IF type_el.tag # "RosType"
         THEN Verdict(FALSE, "Invalid: <SubstitutionRules> must have children named <RosType>")
         ELSE IF "name" \notin type_el.attrs
         THEN Verdict(FALSE, "Invalid: node <RosType> must have the attribute [name]")
         ELSE LET v == checkRules(type_el.children, 1)
              IN IF ~v.valid THEN v ELSE checkTypes(type_els, i + 1)

\* isValidXml: its result and the text it puts on labelValidSyntax.
isValidXml(text) ==
    IF ~text.wellFormed THEN Verdict(FALSE, "Invalid XML: error")
    ELSE IF ~namedItemIsRoot(text, "SubstitutionRules")
    THEN Verdict(FALSE, "Invalid: the root node should be <SubstitutionRules>")
    ELSE LET v == checkTypes(text.root.children, 1)
         IN IF ~v.valid THEN v ELSE Verdict(TRUE, "Valid")

\* A handler of the dialog works on the dialog and on its settings.
RuleCtx(r, st) == [rules |-> r, settings |-> st]

\* Mutant: closing the dialog stores the text along with the geometry.
closeEventStoresText(rc) ==
    [rc EXCEPT !.settings =
                   SetValue(SetValue(@, "RuleEditing.text", rc.rules.text),
                            "RuleEditing.geometry", rc.rules.geometry),
               !.rules.open = FALSE]

\* close(): closeEvent stores the geometry and the dialog goes away.
closeEvent(rc) ==
    [rc EXCEPT !.settings = SetValue(@, "RuleEditing.geometry", rc.rules.geometry),
               !.rules.open = FALSE]

on_pushButtonSave_pressed(rc) ==
    closeEvent([rc EXCEPT !.settings = SetValue(@, "RuleEditing.text", rc.rules.text)])

on_timer(rc) ==
    LET v == isValidXml(rc.rules.text)
    IN [rc EXCEPT !.rules.label = v.label, !.rules.saveEnabled = v.valid]

on_pushButtonCancel_pressed(rc) == closeEvent(rc)

\* on_pushButtonReset_pressed up to QMessageBox::question: the modal
\* question is on screen and runs its own event loop.
on_pushButtonReset_pressed(rc) == [rc EXCEPT !.rules.asking = TRUE]

\* on_pushButtonReset_pressed from the reply on.
on_pushButtonReset_replied(rc, yes) ==
    IF yes
    THEN [rc EXCEPT !.rules.text = DEFAULT, !.rules.asking = FALSE]
    ELSE [rc EXCEPT !.rules.asking = FALSE]

on_pushButtonPrevious_pressed(rc) ==
    IF "RuleEditing.text" \in DOMAIN rc.settings
    THEN [rc EXCEPT !.rules.text = rc.settings["RuleEditing.text"]]
    ELSE [rc EXCEPT !.rules.text = DEFAULT]

\* No RuleEditing dialog has been constructed.
NoRuleEditing ==
    [open |-> FALSE, text |-> Malformed, saveEnabled |-> FALSE, label |-> "",
     geometry |-> "r1", asking |-> FALSE]

\* RuleEditing::RuleEditing: the form as setupUi leaves it (the Save button
\* enabled or not, as the form file says), the stored geometry, the stored
\* text or the built-in one; the timer is started.
RuleEditingNew(st, formSaveEnabled) ==
    LET r0 == [open |-> TRUE, text |-> Malformed, saveEnabled |-> formSaveEnabled,
               label |-> "", geometry |-> Value(st, "RuleEditing.geometry", "r1"),
               asking |-> FALSE]
    IN on_pushButtonPrevious_pressed(RuleCtx(r0, st))

RuleCommit(rc, op) ==
    /\ rules' = rc.rules
    /\ ruleSettings' = rc.settings
    /\ lastOp' = op
    /\ trace' = <<>>
    /\ UNCHANGED <<dialog, xml_loaded, numeric, settings, env, raised,
                   pausesSinceResume, deferred, layout, saved>>

RuleEditingOpen(formSaveEnabled) ==
    /\ ~rules.open
    /\ RuleCommit(RuleEditingNew(ruleSettings, formSaveEnabled), "RuleEditing")

\* The user types in the editor.
UserEditText(text) ==
    /\ rules.open
    /\ ~rules.asking
    /\ text # rules.text
    /\ RuleCommit(RuleCtx([rules EXCEPT !.text = text], ruleSettings), "user")

\* The 200 ms timer fires, also while the question of Reset is on screen.
OnTimer ==
    /\ rules.open
    /\ RuleCommit(on_timer(RuleCtx(rules, ruleSettings)), "on_timer")

\* A disabled button cannot be pressed, and no button of the dialog can
\* while the modal question is on screen.
OnSave ==
    /\ rules.open
    /\ ~rules.asking
    /\ rules.saveEnabled
    /\ RuleCommit(on_pushButtonSave_pressed(RuleCtx(rules, ruleSettings)),
                  "on_pushButtonSave_pressed")

OnCancel ==
    /\ rules.open
    /\ ~rules.asking
    /\ RuleCommit(on_pushButtonCancel_pressed(RuleCtx(rules, ruleSettings)),
                  "on_pushButtonCancel_pressed")

\* The user closes the window.
OnClose ==
    /\ rules.open
    /\ ~rules.asking
    /\ RuleCommit(closeEvent(RuleCtx(rules, ruleSettings)), "closeEvent")

OnReset ==
    /\ rules.open
    /\ ~rules.asking
    /\ RuleCommit(on_pushButtonReset_pressed(RuleCtx(rules, ruleSettings)),
                  "QMessageBox::question")

\* The user answers the question with Yes or No.
OnResetReply(yes) ==
    /\ rules.open
    /\ rules.asking
    /\ RuleCommit(on_pushButtonReset_replied(RuleCtx(rules, ruleSettings), yes),
                  "on_pushButtonReset_pressed")

OnPrevious ==
    /\ rules.open
    /\ ~rules.asking
    /\ RuleCommit(on_pushButtonPrevious_pressed(RuleCtx(rules, ruleSettings)),
                  "on_pushButtonPrevious_pressed")

\* ------------------------------------------------------------------ specifications

NoEnvironment == [x \in {} |-> ""]
NoSeries == [x \in {} |-> <<>>]

\* VideoDialog(nullptr): constructed, not shown, nothing loaded.
NewDialog ==
    [hidden |-> TRUE, lineFilename |-> "", lineEditReference |-> "",
     radioButtonFrame |-> TRUE, paused |-> FALSE, position |-> None,
     geometry |-> "g1"]

\* PublisherVideo::PublisherVideo() run in environment e over the settings
\* a previous run left behind.
Constructed(e, persisted, data) ==
    /\ env = e
    /\ settings = commaLoadVideoFromEnvironment(persisted, e)
    /\ dialog = NewDialog
    /\ xml_loaded = FALSE
    /\ numeric = data
    /\ raised = FALSE
    /\ lastOp = "PublisherVideo"
    /\ trace = <<>>
    /\ pausesSinceResume = 0
    /\ deferred = FALSE
    /\ layout = <<>>
    /\ saved = None
    /\ rules = NoRuleEditing

\* The synchroniser: ticks against a changing data repository.
InitTick == Constructed(NoEnvironment, NoSettings, NoSeries) /\ ruleSettings = NoSettings

NextTick ==
    \/ \E t \in QueryTimes : UpdateState(t)
    \/ \E t \in QueryTimes : Play(t)
    \/ \E b \in BOOLEAN : SetEnabled(b)
    \/ DialogClosed
    \/ \E name \in CurveNames : UserEditReference(name)
    \/ \E b \in BOOLEAN : UserPause(b)
    \/ \E name \in SeriesNames : HostAddSeries(name)
    \/ \E name \in SeriesNames, x \in Times, y \in Values : HostPushBack(name, x, y)
    \/ \E name \in SeriesNames : HostEraseSeries(name)

SpecTick == InitTick /\ [][NextTick]_vars

\* The plugin's life: enable, disable, close, layout load, user edits and
\* ticks, in every environment and over fresh or left-behind settings.
CommaEnvironment ==
    [x \in {"VIDEO_PATH", "VIDEO_REFERENCE_CURVE"} |->
        IF x = "VIDEO_PATH" THEN "/v/x.mp4" ELSE "a"]

\* VIDEO_PATH given relative to the current directory.
RelativeEnvironment == [CommaEnvironment EXCEPT !["VIDEO_PATH"] = "clip.mp4"]

Environments ==
    {[x \in D |-> ce[x]] :
        ce \in {CommaEnvironment, RelativeEnvironment},
        D \in SUBSET {"VIDEO_PATH", "VIDEO_REFERENCE_CURVE"}}

PersistedSettings ==
    {NoSettings,
     [x \in {"VideoDialog::video_file", "VideoDialog::curve_name", "VideoDialog::geometry"} |->
        CASE x = "VideoDialog::video_file" -> "/w/y.mp4"
          [] x = "VideoDialog::curve_name" -> "b"
          [] OTHER -> "g2"]}

LoadedData == [x \in {"a"} |-> <<Point(0, 10), Point(MaxTime, 20)>>]

\* The layout fragments the host hands to xmlLoadState.
ParentElements ==
    {<<>>,
     <<Element("plugin", NoAttributes)>>,
     <<Element("config", NoAttributes)>>,
     <<Element("config", ConfigAttributes("/w/y.mp4", "b", "false"))>>,
     <<Element("plugin", NoAttributes),
       Element("config", ConfigAttributes("/v/x.mp4", "a", "true"))>>}

LifeTimes == {1}

Init ==
    /\ \E e \in Environments, persisted \in PersistedSettings :
          Constructed(e, persisted, LoadedData)
    /\ ruleSettings = NoSettings

Next ==
    \/ \E b \in BOOLEAN : SetEnabled(b)
    \/ DialogClosed
    \/ \E parent_element \in ParentElements : XmlLoadState(parent_element)
    \/ \E t \in LifeTimes : UpdateState(t)
    \/ \E t \in LifeTimes : Play(t)
    \/ \E name \in CurveNames : UserEditReference(name)
    \/ \E filename \in VideoFiles \ {""} : UserLoadFile(filename)
    \/ \E b \in BOOLEAN : UserPause(b)
    \/ \E geometry \in Geometries : UserMove(geometry)

Spec == Init /\ [][Next]_vars

\* The layout round trip: the host saves the dialog into parent elements of
\* its own making and loads the saved layout back, while the user edits.
InitXml == Constructed(NoEnvironment, NoSettings, NoSeries) /\ ruleSettings = NoSettings

NextXml ==
    \/ \E b \in {TRUE} : SetEnabled(b)
    \/ \E parent_element \in ParentElements : XmlSaveState(parent_element)
    \/ XmlLoadSaved
    \/ \E name \in CurveNames : UserEditReference(name)
    \/ \E filename \in VideoFiles \ {""} : UserLoadFile(filename)
    \/ \E frame \in BOOLEAN : UserSetMode(frame)

SpecXml == InitXml /\ [][NextXml]_vars

\* The rule editor: the texts a user works with, the timer and the buttons.
CustomRules ==
    Document(<<>>, Node("SubstitutionRules", {},
        <<Node("RosType", {"name"}, <<Node("rule", RuleAttributes, <<>>)>>)>>))

RuleTexts ==
    {DEFAULT,
     CustomRules,
     Malformed,
     Document(<<>>, Node("Rules", {}, <<>>)),
     Document(<<"SubstitutionRules">>, CustomRules.root),
     Document(<<>>, Node("SubstitutionRules", {},
        <<Node("RosType", {"name"},
            <<Node("rule", {"pattern", "substitution"}, <<>>)>>)>>))}

\* What an earlier run left in the settings: nothing, or rules it saved.
PersistedRules ==
    {NoSettings,
     [x \in {"RuleEditing.text", "RuleEditing.geometry"} |->
        IF x = "RuleEditing.text" THEN CustomRules ELSE "r1"]}

InitRules ==
    /\ Constructed(NoEnvironment, NoSettings, NoSeries)
    /\ ruleSettings \in PersistedRules

NextRules ==
    \/ \E formSaveEnabled \in BOOLEAN : RuleEditingOpen(formSaveEnabled)
    \/ \E text \in RuleTexts : UserEditText(text)
    \/ OnTimer
    \/ OnSave
    \/ OnCancel
    \/ OnClose
    \/ OnReset
    \/ \E yes \in BOOLEAN : OnResetReply(yes)
    \/ OnPrevious

SpecRules == InitRules /\ [][NextRules]_vars

\* The validity check on its own: the timer fires over every text of up to
\* MaxTypes children of the root with up to MaxRules children each.
MaxTypes == 2
MaxRules == 1

SeqsUpTo(S, n) == UNION {[1..k -> S] : k \in 0..n}

RuleElements ==
    {Node("rule", RuleAttributes, <<>>),
     Node("rule", {"pattern", "substitution"}, <<>>),
     Node("item", RuleAttributes, <<>>)}

TypeElements ==
    {Node(k[1], k[2], rule_els) :
        k \in {<<"RosType", {"name"}>>, <<"RosType", {}>>, <<"Type", {"name"}>>},
        rule_els \in SeqsUpTo(RuleElements, MaxRules)}

\* No prolog, an XML declaration, or a processing instruction whose target
\* is the name of the root.
Prologs == {<<>>, <<"xml">>, <<"SubstitutionRules">>}

EditorTexts ==
    {Malformed} \cup
    {Document(prolog, Node(tag, {}, type_els)) :
        prolog \in Prologs,
        tag \in {"SubstitutionRules", "Rules"},
        type_els \in SeqsUpTo(TypeElements, MaxTypes)}

InitValid ==
    /\ Constructed(NoEnvironment, NoSettings, NoSeries)
    /\ ruleSettings = NoSettings

\* The user types one text into the freshly opened dialog.
FirstEdit ==
    /\ lastOp = "RuleEditing"
    /\ \E text \in EditorTexts : UserEditText(text)

NextValid ==
    \/ \E formSaveEnabled \in BOOLEAN : RuleEditingOpen(formSaveEnabled)
    \/ FirstEdit
    \/ OnTimer

SpecValid == InitValid /\ [][NextValid]_vars

\* ------------------------------------------------------------------ properties

IsTick == lastOp \in {"updateState", "play"}

Called(t, fn) == \E i \in DOMAIN t : t[i].fn = fn

\* The numeric arguments of the calls of fn in a trace.
Args(t, fn) == {t[i].q : i \in {j \in DOMAIN t : t[j].fn = fn}}

\* Whether the dialog is paused just before call j of trace t, when it was
\* paused (or not) as p0 says before the first call.
PausedBefore(p0, t, j) ==
    LET earlier == {i \in 1..(j - 1) : t[i].fn = "pause"}
    IN IF earlier = {} THEN p0
       ELSE t[CHOOSE i \in earlier : \A k \in earlier : k <= i].s = "true"

\* The series the reference curve names, and the time the last tick asked for.
RefSeries == numeric[referenceCurve(dialog)]
QueryTime == CHOOSE x \in QueryTimes : Args(trace, "getYfromX") = {Frac(x, 1)}

\* The last handler was a tick that resolved a position.
ResolvedTick == IsTick /\ Resolvable(dialog, numeric)

\* C1: ticks that resolve a position call pause(true) at most once between
\* two un-pauses, however many of them there are, and every one of them
\* calls seekByValue.
C1_PauseOnce ==
    /\ pausesSinceResume <= 1
    /\ ResolvedTick => Called(trace, "seekByValue")

\* A tick that seeks without pausing, after an earlier tick paused the dialog
\* and nobody has un-paused it since.
C1_Witness ==
    /\ ResolvedTick
    /\ pausesSinceResume = 1
    /\ ~Called(trace, "pause")
    /\ Called(trace, "seekByValue")

\* C2: whenever a tick calls seekByValue the dialog is paused at that call:
\* it was paused before the tick, or the tick called pause(true) first.
C2_SeekWhilePaused ==
    [][(IsTick' /\ Called(trace', "seekByValue")) =>
          /\ \A j \in DOMAIN trace' :
                trace'[j].fn = "seekByValue" => PausedBefore(isPaused(dialog), trace', j)
          /\ isPaused(dialog')]_vars

C2_Witness ==
    /\ IsTick
    /\ Len(trace) = 4
    /\ trace[3].fn = "pause" /\ trace[3].s = "true"
    /\ trace[4].fn = "seekByValue"

\* C3: a tick on a hidden dialog, or on one without a reference curve, makes
\* no call at all (no lookup, no pause, no seek) and leaves the dialog as it is.
C3_InactiveTickIsNoOp ==
    [][(IsTick' /\ ~Active(dialog)) =>
          /\ trace' = <<>>
          /\ dialog' = dialog
          /\ ~raised']_vars

C3_Witness ==
    /\ IsTick
    /\ isHidden(dialog)
    /\ referenceCurve(dialog) \in DOMAIN numeric
    /\ Len(RefSeries) > 0
    /\ trace = <<>>

\* C4: an Active tick whose lookup fails (no series of that name, or a series
\* without samples) calls neither pause nor seekByValue, raises nothing and
\* leaves dialog, settings and data unchanged, so the dialog is still Active.
C4_FailedLookupIsNoOp ==
    [][(IsTick' /\ Active(dialog) /\ ~Resolvable(dialog, numeric)) =>
          /\ ~Called(trace', "pause")
          /\ ~Called(trace', "seekByValue")
          /\ ~raised'
          /\ dialog' = dialog
          /\ settings' = settings
          /\ numeric' = numeric
          /\ Active(dialog')]_vars

C4_Witness ==
    /\ IsTick
    /\ Active(dialog)
    /\ referenceCurve(dialog) \in DOMAIN numeric
    /\ Len(RefSeries) = 0
    /\ Called(trace, "getYfromX")
    /\ ~isPaused(dialog)

\* C5: a reference curve configured before its series exists stays
\* configured, and once the host holds a non-empty series of that name the
\* next tick seeks the video to the sampled value.
C5_DeferredResolution ==
    /\ [](deferred => referenceCurve(dialog) # "")
    /\ [][(IsTick' /\ deferred /\ Resolvable(dialog, numeric)) =>
             /\ Called(trace', "seekByValue")
             /\ has_value(dialog'.position)
             /\ Args(trace', "seekByValue") = {value(dialog'.position)}]_vars

C5_Witness ==
    /\ ResolvedTick
    /\ deferred
    /\ Called(trace, "seekByValue")

\* C6: a tick at a time strictly between two adjacent samples (t0, v0) and
\* (t1, v1) seeks to v0 + (v1 - v0) * (t - t0) / (t1 - t0).
C6_LinearInterpolation ==
    ResolvedTick =>
        \A i \in 1..(Len(RefSeries) - 1) :
            LET p0 == RefSeries[i]
                p1 == RefSeries[i + 1]
            IN (p0.x < QueryTime /\ QueryTime < p1.x) =>
                  \E v \in Args(trace, "seekByValue") :
                     /\ Args(trace, "seekByValue") = {v}
                     /\ dialog.position = Some(v)
                     /\ v[1] * (p1.x - p0.x) =
                           v[2] * (p0.y * (p1.x - p0.x) + (p1.y - p0.y) * (QueryTime - p0.x))

C6_Witness ==
    /\ ResolvedTick
    /\ Len(RefSeries) = 2
    /\ RefSeries[1] = Point(0, 10)
    /\ RefSeries[2] = Point(2, 20)
    /\ QueryTime = 1
    /\ dialog.position = Some(<<15, 1>>)

\* C7: a tick at a time before the first sample seeks to the first sample's
\* value, a tick at a time after the last sample seeks to the last sample's.
C7_Clamped ==
    ResolvedTick =>
        LET first == RefSeries[1]
            last == RefSeries[Len(RefSeries)]
        IN /\ QueryTime < first.x =>
                 /\ Args(trace, "seekByValue") = {Frac(first.y, 1)}
                 /\ dialog.position = Some(Frac(first.y, 1))
           /\ QueryTime > last.x =>
                 /\ Args(trace, "seekByValue") = {Frac(last.y, 1)}
                 /\ dialog.position = Some(Frac(last.y, 1))

C7_Witness ==
    /\ ResolvedTick
    /\ Len(RefSeries) = 2
    /\ RefSeries[1].y # RefSeries[2].y
    /\ QueryTime > RefSeries[2].x
    /\ dialog.position = Some(Frac(RefSeries[2].y, 1))

\* C8 as stated: a tick at the timestamp of a sample seeks to that sample's
\* value, whichever sample of the series it is.
C8_ExactEverySample ==
    ResolvedTick =>
        \A i \in DOMAIN RefSeries :
            RefSeries[i].x = QueryTime =>
               /\ Args(trace, "seekByValue") = {Frac(RefSeries[i].y, 1)}
               /\ dialog.position = Some(Frac(RefSeries[i].y, 1))

\* C8 amended: a tick at the timestamp of a sample seeks to the value of a
\* sample that carries this timestamp; that is the sample's own value when
\* no other sample shares its timestamp.
C8_ExactSample ==
    ResolvedTick =>
        ((\E i \in DOMAIN RefSeries : RefSeries[i].x = QueryTime) =>
            \E k \in DOMAIN RefSeries :
               /\ RefSeries[k].x = QueryTime
               /\ Args(trace, "seekByValue") = {Frac(RefSeries[k].y, 1)}
               /\ dialog.position = Some(Frac(RefSeries[k].y, 1)))

C8_Witness ==
    /\ ResolvedTick
    /\ Len(RefSeries) = 2
    /\ RefSeries[1].x < RefSeries[2].x
    /\ RefSeries[1].y # RefSeries[2].y
    /\ QueryTime = RefSeries[2].x
    /\ dialog.position = Some(Frac(RefSeries[2].y, 1))

\* The values the settings store holds for the dialog.
StoredFile(st) == Value(st, "VideoDialog::video_file", "")
StoredCurve(st) == Value(st, "VideoDialog::curve_name", "")

IsDisable == lastOp \in {"setEnabled(false)", "closed"}

\* C9: setEnabled(true) shows the dialog, which is Active when it ends with a
\* reference curve; setEnabled(false) and the dialog's closed signal hide it;
\* once hidden it stays hidden until a setEnabled(true), and no tick in
\* between pauses or seeks the video.
C9_TwoStates ==
    [][/\ lastOp' = "setEnabled(true)" =>
             /\ ~isHidden(dialog')
             /\ referenceCurve(dialog') # "" => Active(dialog')
       /\ IsDisable' => isHidden(dialog') /\ ~Active(dialog')
       /\ lastOp' = "closed" =>
             /\ Len(trace') = 2
             /\ trace'[1].fn = "hide"
             /\ trace'[2].fn = "emit closed"
       /\ (isHidden(dialog) /\ ~isHidden(dialog')) => lastOp' = "setEnabled(true)"
       /\ (IsTick' /\ isHidden(dialog)) =>
             /\ ~Called(trace', "pause")
             /\ ~Called(trace', "seekByValue")
             /\ isPaused(dialog') = isPaused(dialog)
             /\ dialog'.position = dialog.position]_vars

C9_Witness ==
    /\ IsTick
    /\ isHidden(dialog)
    /\ Resolvable([dialog EXCEPT !.hidden = FALSE], numeric)
    /\ has_value(dialog.position)
    /\ ~isPaused(dialog)
    /\ trace = <<>>

\* C10 as stated: every setEnabled(false) stores the dialog's reference curve
\* and video file, and every setEnabled(true) leaves the dialog with the
\* stored reference curve and video file.
C10_SaveAndLoadAlways ==
    [][/\ IsDisable' =>
             /\ "VideoDialog::curve_name" \in DOMAIN settings'
             /\ "VideoDialog::video_file" \in DOMAIN settings'
             /\ StoredCurve(settings') = dialog.lineEditReference
             /\ StoredFile(settings') = dialog.lineFilename
       /\ lastOp' = "setEnabled(true)" =>
             /\ dialog'.lineEditReference = StoredCurve(settings')
             /\ dialog'.lineFilename = StoredFile(settings')]_vars

\* C10 amended: every setEnabled(false) stores the dialog's reference curve
\* and video file. A setEnabled(true) made before any layout was loaded, or
\* with the environment override present, leaves the dialog with the stored
\* reference curve and has it load the stored video file unless that is
\* already its file and there is no override; a setEnabled(true) made after a
\* layout load without the override leaves reference curve and video file
\* as they are.
C10_SaveAndLoadUnlessLayout ==
    [][/\ IsDisable' =>
             /\ "VideoDialog::curve_name" \in DOMAIN settings'
             /\ "VideoDialog::video_file" \in DOMAIN settings'
             /\ StoredCurve(settings') = dialog.lineEditReference
             /\ StoredFile(settings') = dialog.lineFilename
       /\ (lastOp' = "setEnabled(true)" /\ (~xml_loaded \/ useCommaVideo(env))) =>
             /\ dialog'.lineEditReference = StoredCurve(settings')
             /\ dialog'.lineFilename = StoredFile(settings')
             /\ (StoredFile(settings') # dialog.lineFilename \/ useCommaVideo(env)) =>
                   \E i \in DOMAIN trace' :
                      trace'[i].fn = "loadFile" /\ trace'[i].s = StoredFile(settings')
       /\ (lastOp' = "setEnabled(true)" /\ xml_loaded /\ ~useCommaVideo(env)) =>
             /\ dialog'.lineEditReference = dialog.lineEditReference
             /\ dialog'.lineFilename = dialog.lineFilename
             /\ ~Called(trace', "loadFile")]_vars

C10_Witness ==
    /\ lastOp = "setEnabled(true)"
    /\ ~xml_loaded
    /\ env = NoEnvironment
    /\ dialog.lineEditReference = "a"
    /\ dialog.lineFilename = "/v/x.mp4"
    /\ StoredCurve(settings) = "a"
    /\ StoredFile(settings) = "/v/x.mp4"
    /\ Called(trace, "loadFile")

Returned(t, b) ==
    /\ t # <<>>
    /\ t[Len(t)].fn = "return"
    /\ t[Len(t)].s = (IF b THEN "true" ELSE "false")

\* C11: xmlSaveState returns true, and after an xmlSaveState into a parent
\* element without an earlier config child, xmlLoadState from that parent
\* returns true and leaves the dialog with the reference curve, the video
\* file and the frame/time mode it showed when it was saved.
C11_RoundTrip ==
    [][/\ lastOp' = "xmlSaveState" => Returned(trace', TRUE)
       /\ (lastOp' = "xmlLoadState" /\ has_value(saved) /\ value(saved).fresh) =>
             /\ Returned(trace', TRUE)
             /\ dialog'.lineEditReference = value(saved).curve_name
             /\ dialog'.lineFilename = value(saved).video_file
             /\ dialog'.radioButtonFrame = value(saved).use_frame]_vars

\* A load that brings back a curve, a file and a mode the user had all
\* changed after the save.
C11_Witness ==
    /\ lastOp = "xmlLoadState"
    /\ has_value(saved) /\ value(saved).fresh
    /\ Returned(trace, TRUE)
    /\ dialog.lineEditReference = "a"
    /\ dialog.lineFilename = "/v/x.mp4"
    /\ ~dialog.radioButtonFrame
    /\ Len(layout) = 2

HasCurveKey(st) == "VideoDialog::curve_name" \in DOMAIN st

FailedLoad == lastOp = "xmlLoadState" /\ Returned(trace, FALSE)

\* C12 as stated: an xmlLoadState of a parent without a config element, and
\* a setEnabled(true) over settings without a curve-name key, raise nothing
\* and end with an empty reference curve, whatever the dialog showed before.
C12_MissingConfigResets ==
    [][/\ FailedLoad' => ~raised' /\ referenceCurve(dialog') = ""
       /\ (lastOp' = "setEnabled(true)" /\ ~HasCurveKey(settings')) =>
             ~raised' /\ referenceCurve(dialog') = ""]_vars

\* C12 amended: an xmlLoadState of a parent without a config element raises
\* nothing and changes nothing (dialog, _xml_loaded, settings), so the
\* reference curve is empty after it only if it was before; a setEnabled(true)
\* over settings without a curve-name key raises nothing and ends with an
\* empty reference curve when no layout was loaded before, and leaves the
\* reference curve as it is when one was.
C12_MissingConfigKeepsState ==
    [][/\ FailedLoad' =>
             /\ ~raised'
             /\ dialog' = dialog
             /\ xml_loaded' = xml_loaded
             /\ settings' = settings
       /\ (lastOp' = "setEnabled(true)" /\ ~HasCurveKey(settings')) =>
             /\ ~raised'
             /\ ~xml_loaded =>
                   referenceCurve(dialog') = "" /\ ~Active(dialog')
             /\ xml_loaded =>
                   referenceCurve(dialog') = referenceCurve(dialog)]_vars

C12_Witness ==
    /\ FailedLoad
    /\ referenceCurve(dialog) = "a"
    /\ Active(dialog)
    /\ ~xml_loaded
    /\ ~HasCurveKey(settings)

\* C13: with VIDEO_PATH and VIDEO_REFERENCE_CURVE both set, every
\* setEnabled(true) ends with the reference curve VIDEO_REFERENCE_CURVE and
\* has loaded the file VIDEO_PATH; with either of them unset,
\* commaLoadVideoFromEnvironment returns false and writes no setting, at
\* construction and in setEnabled(true) alike.
C13_EnvironmentOverride ==
    /\ [](~useCommaVideo(env) =>
             commaLoadVideoFromEnvironment(settings, env) = settings)
    /\ [][lastOp' = "setEnabled(true)" =>
             IF useCommaVideo(env)
             THEN /\ referenceCurve(dialog') = env["VIDEO_REFERENCE_CURVE"]
                  /\ dialog'.lineFilename = env["VIDEO_PATH"]
                  /\ \E i \in DOMAIN trace' :
                        trace'[i].fn = "loadFile" /\ trace'[i].s = env["VIDEO_PATH"]
             ELSE settings' = settings]_vars

\* An enable that brings the override back over a loaded layout and saved
\* settings that said otherwise.
C13_Witness ==
    /\ lastOp = "setEnabled(true)"
    /\ useCommaVideo(env)
    /\ xml_loaded
    /\ referenceCurve(dialog) = "a"
    /\ dialog.lineFilename = "/v/x.mp4"
    /\ ~dialog.radioButtonFrame
    /\ "VideoDialog::geometry" \in DOMAIN settings

\* C14: a successful xmlLoadState sets _xml_loaded, which never becomes
\* false again; a setEnabled(true) made with the flag set and without the
\* environment override only shows the dialog, leaving reference curve and
\* video file as they are; a failed xmlLoadState leaves the flag, the
\* reference curve and the mode unchanged.
C14_LayoutPrecedence ==
    [][/\ xml_loaded => xml_loaded'
       /\ (lastOp' = "xmlLoadState" /\ Returned(trace', TRUE)) => xml_loaded'
       /\ (lastOp' = "setEnabled(true)" /\ xml_loaded /\ ~useCommaVideo(env)) =>
             /\ referenceCurve(dialog') = referenceCurve(dialog)
             /\ dialog'.lineFilename = dialog.lineFilename
             /\ dialog' = [dialog EXCEPT !.hidden = FALSE]
             /\ CountCalls(trace', "show", "") = Len(trace')
       /\ FailedLoad' =>
             /\ xml_loaded' = xml_loaded
             /\ referenceCurve(dialog') = referenceCurve(dialog)
             /\ dialog'.radioButtonFrame = dialog.radioButtonFrame]_vars

\* An enable after a layout load that keeps a curve the settings do not hold.
C14_Witness ==
    /\ lastOp = "setEnabled(true)"
    /\ xml_loaded
    /\ ~useCommaVideo(env)
    /\ referenceCurve(dialog) = "b"
    /\ HasCurveKey(settings)
    /\ StoredCurve(settings) = "a"

\* ------------------------------------------------------------------ rule editor claims

StoredRules(st) == st["RuleEditing.text"]
HasStoredRules(st) == "RuleEditing.text" \in DOMAIN st

\* The conditions on a text, each with its place in document order: child i
\* of the root, child j of that child (0 for the child itself), check k.
Violation(i, j, k, label) == [i |-> i, j |-> j, k |-> k, label |-> label]

TypeViolations(type_el, i) ==
    {Violation(i, 0, 1, "Invalid: <SubstitutionRules> must have children named <RosType>") :
        x \in {y \in {type_el} : y.tag # "RosType"}}
    \cup
    {Violation(i, 0, 2, "Invalid: node <RosType> must have the attribute [name]") :
        x \in {y \in {type_el} : "name" \notin y.attrs}}
    \cup
    {Violation(i, j, 1, "Invalid: <RosType> must have children named <rule>") :
        j \in {n \in DOMAIN type_el.children : type_el.children[n].tag # "rule"}}
    \cup
    {Violation(i, j, 2, "Invalid: <rule> must have the attributes 'pattern', 'alias' and 'substitution'") :
        j \in {n \in DOMAIN type_el.children :
                 ~({"pattern", "alias", "substitution"} \subseteq type_el.children[n].attrs)}}

Violations(text) ==
    UNION {TypeViolations(text.root.children[i], i) : i \in DOMAIN text.root.children}

Before(v, w) ==
    \/ v.i < w.i
    \/ v.i = w.i /\ v.j < w.j
    \/ v.i = w.i /\ v.j = w.j /\ v.k < w.k

FirstViolation(text) ==
    CHOOSE v \in Violations(text) : \A w \in Violations(text) \ {v} : Before(v, w)

WellFormedRules(text) ==
    /\ text.wellFormed
    /\ text.root.tag = "SubstitutionRules"
    /\ Violations(text) = {}

ReportedError(text) ==
    IF ~text.wellFormed THEN "Invalid XML: error"
    ELSE IF text.root.tag # "SubstitutionRules"
    THEN "Invalid: the root node should be <SubstitutionRules>"
    ELSE FirstViolation(text).label

\* C15: right after a timer tick the Save button is enabled exactly when the
\* editor's text is well-formed XML with root SubstitutionRules, RosType
\* children carrying a name, and rule grandchildren carrying pattern, alias
\* and substitution; otherwise the label reports the first violated condition
\* in document order.
C15_SaveEnabledIffValid ==
    lastOp = "on_timer" =>
        /\ rules.saveEnabled = WellFormedRules(rules.text)
        /\ rules.saveEnabled => rules.label = "Valid"
        /\ ~rules.saveEnabled => rules.label = ReportedError(rules.text)

\* C16: whatever is stored under RuleEditing.text is valid according to
\* isValidXml, under any interleaving of edits, timer ticks and Save presses.
C16_StoredTextValid ==
    HasStoredRules(ruleSettings) => isValidXml(StoredRules(ruleSettings)).valid

\* C17: the stored rule text changes only when Save is pressed, and then to
\* the editor's text; every other handler leaves it alone, and Previous and a
\* newly constructed dialog show the stored text, or DEFAULT when nothing
\* was ever stored.
C17_OnlySaveStores ==
    [][/\ lastOp' # "on_pushButtonSave_pressed" =>
            /\ HasStoredRules(ruleSettings') = HasStoredRules(ruleSettings)
            /\ HasStoredRules(ruleSettings) =>
                   StoredRules(ruleSettings') = StoredRules(ruleSettings)
       /\ lastOp' = "on_pushButtonSave_pressed" =>
            /\ HasStoredRules(ruleSettings')
            /\ StoredRules(ruleSettings') = rules.text
       /\ lastOp' \in {"on_pushButtonPrevious_pressed", "RuleEditing"} =>
            rules'.text = IF HasStoredRules(ruleSettings)
                          THEN StoredRules(ruleSettings)
                          ELSE DEFAULT]_vars

\* A dialog constructed after an earlier one was closed without a Save ever
\* having been pressed shows the built-in rules.
C17_Witness ==
    /\ lastOp = "RuleEditing"
    /\ "RuleEditing.geometry" \in DOMAIN ruleSettings
    /\ ~HasStoredRules(ruleSettings)
    /\ rules.text = DEFAULT

====
